---- MODULE Spec2Model ----
(***************************************************************************)
(* Self-avoiding random walk with obstacles: RandomWalk (src/main.py, two  *)
(* dimensions) and RandomWalk3D (src/3d.py, three dimensions).             *)
(*                                                                         *)
(* A lattice point is a sequence of dim integers.  The numpy buffer        *)
(* `steps` of shape (dim, size) is held in its transposed form, the        *)
(* sequence of its size points (what steps.T.tolist() yields); Python      *)
(* index p is TLA+ index p + 1.  The float entries of the buffer are       *)
(* always integral, so they are modelled as integers.                      *)
(***************************************************************************)
EXTENDS Integers, Sequences, FiniteSets

(* ------------------------------ bounds --------------------------------- *)

\* Largest step count (size) passed to the constructor or to avoid_walk.
MaxSteps == 12

\* Largest half-width a caller installs in edges / max_distance directly.
MaxBound == 5

\* Largest obstacle count n a caller passes to generate_obstacles directly.
MaxObstacles == 2

\* Largest estimated size (placements times search paths) of one enumerated
\* input; inputs whose exploration would be larger are not enumerated.
MaxWork == 3000

\* Step count of the degenerate scenario (bound 1, long walk).
DegenerateSteps == 50

\* Largest step count the bound computation alone is applied to.
MaxCount == 230

(* ------------------------- program constants --------------------------- *)

\* side of an obstacle block: range(4) in generate_obstacles
BlockSide == 4

\* n passed by RandomWalk.rand_avoid to generate_obstacles
NumObstacles2D == 3

\* n passed by RandomWalk3D.rand_avoid to generate_obstacles
NumObstacles3D == 2

(* ------------------------------ helpers -------------------------------- *)

Abs(x) == IF x < 0 THEN -x ELSE x

Min(a, b) == IF a <= b THEN a ELSE b

Max(a, b) == IF a >= b THEN a ELSE b

RECURSIVE Pow(_, _)
Pow(b, e) == IF e = 0 THEN 1 ELSE b * Pow(b, e - 1)

Range(s) == {s[k] : k \in DOMAIN s}

\* round() taking a tie to the next integer up
PyRound_half_up(num, den) ==
    LET q == num \div den
        r == num % den
    IN  IF 2 * r < den THEN q ELSE q + 1

\* Python's round() of the rational num/den (den > 0, num >= 0): nearest
\* integer, ties to the even one.
PyRound(num, den) ==
    LET q == num \div den
        r == num % den
    IN  IF 2 * r < den THEN q
        ELSE IF 2 * r > den THEN q + 1
        ELSE IF q % 2 = 0 THEN q ELSE q + 1

\* round(np.sqrt(size)): the integer nearest to the square root (a square
\* root of an integer is never half-way between two integers).
RoundSqrt(size) ==
    CHOOSE r \in 0..size :
        /\ (2 * r - 1) * (2 * r - 1) < 4 * size
        /\ 4 * size < (2 * r + 1) * (2 * r + 1)

\* round(np.cbrt(size)): the integer nearest to the cube root.
RoundCbrt(size) ==
    CHOOSE r \in 0..size :
        /\ Pow(2 * r - 1, 3) < 8 * size
        /\ 8 * size < Pow(2 * r + 1, 3)

\* the all-zero point of np.zeros((d, size))
Zero(d) == [k \in 1..d |-> 0]

\* np.zeros((d, size)), transposed
Zeros(d, size) == [p \in 1..size |-> Zero(d)]

\* np.add(p, j)
AddPoint(p, j) == [k \in DOMAIN p |-> p[k] + j[k]]

\* [a, a+1, ..., b] (range(a, b + 1)) and [a, a-1, ..., b] (range(a, b - 1, -1))
Ascending(a, b) == [k \in 1..(b - a + 1) |-> a + k - 1]

Descending(a, b) == [k \in 1..(a - b + 1) |-> a - k + 1]

Repeat(v, len) == [k \in 1..len |-> v]

\* np.array(m).T.tolist() of a list m of d equally long coordinate lists
Transpose(m) ==
    IF Len(m) = 0 \/ Len(m[1]) = 0 THEN << >>
    ELSE [p \in 1..Len(m[1]) |-> [k \in 1..Len(m) |-> m[k][p]]]

RECURSIVE Flatten(_)
Flatten(ss) == IF Len(ss) = 0 THEN << >> ELSE Head(ss) \o Flatten(Tail(ss))

(* ------------------------ region bound (pure) -------------------------- *)

\* round(1.75 * root) of the d-th root of size, the root not rounded: the
\* integer L nearest to 7/4 of the root, i.e. (4L - 2)^d < 7^d * size <
\* (4L + 2)^d, a tie going to the even integer
SideLength(size, d) ==
    CHOOSE L \in 0..(2 * size + 2) :
        LET lo == Pow(4 * L - 2, d)
            hi == Pow(4 * L + 2, d)
            v  == Pow(7, d) * size
        IN  \/ lo < v /\ v < hi
            \/ v = hi /\ L % 2 = 0
            \/ v = lo /\ L >= 1 /\ L % 2 = 0

\* the half-width when the product with 1.75 is rounded before the halving
h_length2D_product_first(size) == PyRound(SideLength(size, 2), 2)

\* RandomWalk.border, lines 163-164: length = round(sqrt(size)) * 1.75,
\* h_length = round(length / 2); 1.75 / 2 = 7 / 8 exactly.
h_length2D(size) == PyRound(7 * RoundSqrt(size), 8)

\* border without its last side, the left one
border_edge_no_left(h) ==
    LET side_length == 2 * h + 1
        xs == Ascending(-h, h) \o Repeat(h, side_length) \o Descending(h, -h)
        ys == Repeat(h, side_length) \o Descending(h, -h)
                \o Repeat(-h, side_length)
    IN  << xs, ys >>

\* RandomWalk.border, lines 165-194: the perimeter of the square, as the
\* pair of coordinate lists [xs, ys]: top, right, bottom, left.
border_edge(h) ==
    LET side_length == 2 * h + 1
        xs == Ascending(-h, h) \o Repeat(h, side_length)
                \o Descending(h, -h) \o Repeat(-h, side_length)
        ys == Repeat(h, side_length) \o Descending(h, -h)
                \o Repeat(-h, side_length) \o Ascending(-h, h)
    IN  << xs, ys >>

border(size) == border_edge(h_length2D(size))

\* RandomWalk3D.set_max
set_max(size) == PyRound(7 * RoundCbrt(size), 8)

(* ------------------------------- state --------------------------------- *)

VARIABLES
    dim,           \* 2: RandomWalk (main.py); 3: RandomWalk3D (3d.py)
    entry,         \* "rand_avoid": built by the constructor; "methods": the
                   \* caller set the bound and calls the methods itself
    num_steps,     \* self.num_steps, the size of the buffer
    n,             \* the obstacle count passed to generate_obstacles
    edges,         \* self.edges (main.py): the border [xs, ys]
    max_distance,  \* self.max_distance (3d.py)
    obstacles,     \* self.obstacles: per obstacle its coordinate lists
    obs_points,    \* self.obs_points: the occupied cells
    origin,        \* origin of generate_obstacles: the point that
                   \* random_obstacle_placement last returned
    pc,            \* position of the run
    stack,         \* the active calls of avoid_walk, the innermost last
    ret,           \* the value the innermost finished call returned
    walk           \* self.walk

vars == << dim, entry, num_steps, n, edges, max_distance, obstacles,
           obs_points, origin, pc, stack, ret, walk >>

\* a return value: none yet, False, or a buffer
NoValue == [kind |-> "none", steps |-> << >>]

FalseValue == [kind |-> "False", steps |-> << >>]

StepsValue(steps) == [kind |-> "steps", steps |-> steps]

\* the half-width the run works with: limit = -border[0][0] in main.py,
\* self.max_distance in 3d.py
limit == IF dim = 2 THEN -edges[1][1] ELSE max_distance

(* ------------------------- enumerated inputs --------------------------- *)

\* number of points of [-h, h-4]^d that random_obstacle_placement accepts
Accepted(d, h) ==
    IF h < BlockSide + 1 THEN 0
    ELSE Pow(2 * h - BlockSide + 1, d) - Pow(BlockSide + 1, d)

\* upper estimate of the number of walks of `last` moves the search can
\* commit: move k has at most 2d (first move) or 2d - 1 directions and at
\* most as many targets as the open region has unvisited cells.  The
\* estimate stops growing at MaxWork + 1.
RECURSIVE PathsFrom(_, _, _, _, _)
PathsFrom(d, h, k, last, acc) ==
    LET branch == IF k = 1 THEN 2 * d ELSE 2 * d - 1
        free   == Pow(2 * h - 1, d) - k
    IN  IF k > last \/ acc > MaxWork \/ free <= 1 THEN acc
        ELSE PathsFrom(d, h, k + 1, last, acc * Min(branch, free))

Paths(d, h, last) == PathsFrom(d, h, 1, last, 1)

\* number of lists of k accepted origins, counted up to MaxWork + 1
RECURSIVE Placements(_, _, _)
Placements(d, h, k) ==
    IF k = 0 THEN 1
    ELSE Min(MaxWork + 1, Accepted(d, h) * Placements(d, h, k - 1))

\* estimated size of the exploration of one input: the obstacle lists the
\* placement can build times the walks the search can commit (the search
\* is not reached when k obstacles are asked for and no origin is accepted)
Work(d, size, h, k) ==
    IF k > 0 /\ Accepted(d, h) = 0 THEN 1
    ELSE Placements(d, h, k) * Paths(d, h, size - 1)

Sizes == 1..MaxSteps \cup {DegenerateSteps}

Init ==
    /\ dim \in {2, 3}
    /\ num_steps \in Sizes
    /\ obstacles = << >>
    /\ obs_points = << >>
    /\ origin = << >>
    /\ stack = << >>
    /\ ret = NoValue
    /\ walk = NoValue
    /\ \/ \* RandomWalk(size) / RandomWalk3D(size): __init__ calls rand_avoid
          /\ entry = "rand_avoid"
          /\ pc = "rand_avoid"
          /\ n = 0
          /\ edges = << << >> >>
          /\ max_distance = 0
          /\ IF dim = 2
             THEN Work(2, num_steps, h_length2D(num_steps), NumObstacles2D) <= MaxWork
             ELSE Work(3, num_steps, set_max(num_steps), NumObstacles3D) <= MaxWork
       \/ \* the bound is installed by the caller, who then calls
          \* generate_obstacles(n) and avoid_walk(np.zeros((dim, size)))
          /\ entry = "methods"
          /\ pc = "generate_obstacles"
          /\ n \in 0..MaxObstacles
          /\ \E h \in 1..MaxBound :
                /\ Work(dim, num_steps, h, n) <= MaxWork
                /\ IF dim = 2
                   THEN edges = border_edge(h) /\ max_distance = 0
                   ELSE edges = << << >> >> /\ max_distance = h

(* ----------------------------- rand_avoid ------------------------------ *)

\* RandomWalk.rand_avoid up to the call of generate_obstacles(self.edges, 3)
rand_avoid ==
    /\ pc = "rand_avoid"
    /\ dim = 2
    /\ edges' = border(num_steps)
    /\ n' = NumObstacles2D
    /\ pc' = "generate_obstacles"
    /\ UNCHANGED << dim, entry, num_steps, max_distance, obstacles,
                    obs_points, origin, stack, ret, walk >>

\* RandomWalk3D.rand_avoid up to the call of generate_obstacles(2)
rand_avoid3D ==
    /\ pc = "rand_avoid"
    /\ dim = 3
    /\ max_distance' = set_max(num_steps)
    /\ n' = NumObstacles3D
    /\ pc' = "generate_obstacles"
    /\ UNCHANGED << dim, entry, num_steps, edges, obstacles,
                    obs_points, origin, stack, ret, walk >>

(* ------------------------- obstacle placement -------------------------- *)

\* randint called with limit - 3 as its upper end
RandintRange_wide(lim) == (-lim)..(lim - BlockSide + 1)

\* randint called with limit as its upper end
RandintRange_full(lim) == (-lim)..lim

\* the values random.randint(-limit, limit - 4) can return
RandintRange(lim) == (-lim)..(lim - BlockSide)

\* the points [randint(..), ..., randint(..)] can be
Samples(d, lim) == [1..d -> RandintRange(lim)]

\* the test written with the signs reversed: (0 <= origin[k] <= 4)
BlocksOrigin_positive(o) == \A k \in DOMAIN o : 0 <= o[k] /\ o[k] <= BlockSide

\* the test written with strict comparisons: (0 > origin[k] > -4)
BlocksOrigin_strict(o) == \A k \in DOMAIN o : 0 > o[k] /\ o[k] > -BlockSide

\* the test written for the cells that cover the origin: (0 >= origin[k] >= -3)
BlocksOrigin_cover(o) == \A k \in DOMAIN o : 0 >= o[k] /\ o[k] >= -(BlockSide - 1)

\* the test of random_obstacle_placement: (0 >= origin[k] >= -4) on every axis
BlocksOrigin(o) == \A k \in DOMAIN o : 0 >= o[k] /\ o[k] >= -BlockSide

\* the offsets of loops written range(1, 4)
Offsets_short(d) ==
    [q \in 1..Pow(BlockSide - 1, d) |->
        [k \in 1..d |->
            1 + (((q - 1) \div Pow(BlockSide - 1, d - k)) % (BlockSide - 1))]]

\* the offsets (j, k) / (j, k, l) of the nested range(4) loops, in loop
\* order: the loop of the first axis is the outermost
Offsets(d) ==
    [q \in 1..Pow(BlockSide, d) |->
        [k \in 1..d |-> ((q - 1) \div Pow(BlockSide, d - k)) % BlockSide]]

\* the obstacle [x, y] / [x, y, z] that generate_obstacles appends for origin o
Obstacle(o) ==
    LET off == Offsets(Len(o))
    IN  [k \in 1..Len(o) |-> [q \in 1..Len(off) |-> off[q][k] + o[k]]]

\* the second loop of generate_obstacles: every cell of every obstacle
ObsPoints(obs) == Flatten([q \in 1..Len(obs) |-> Transpose(obs[q])])

\* random.randint raises ValueError on an empty range (limit - 4 < -limit)
random_obstacle_placement_raise ==
    /\ pc = "generate_obstacles"
    /\ Len(obstacles) < n
    /\ RandintRange(limit) = {}
    /\ pc' = "ValueError"
    /\ UNCHANGED << dim, entry, num_steps, n, edges, max_distance, obstacles,
                    obs_points, origin, stack, ret, walk >>

\* the sampled point blocks the origin: random_obstacle_placement calls
\* itself (line 147) and the new call starts from the same object state;
\* nothing has been returned to generate_obstacles
random_obstacle_placement_retry ==
    /\ pc = "generate_obstacles"
    /\ Len(obstacles) < n
    /\ \E o \in Samples(dim, limit) : BlocksOrigin(o)
    /\ UNCHANGED vars

\* one pass of the first loop of generate_obstacles: random_obstacle_placement
\* returns the sampled origin and the block is appended to self.obstacles
generate_obstacles_place ==
    /\ pc = "generate_obstacles"
    /\ Len(obstacles) < n
    /\ \E o \in Samples(dim, limit) :
          /\ ~BlocksOrigin(o)
          /\ origin' = o
          /\ obstacles' = Append(obstacles, Obstacle(o))
    /\ UNCHANGED << dim, entry, num_steps, n, edges, max_distance,
                    obs_points, pc, stack, ret, walk >>

\* the end of generate_obstacles (n obstacles placed, their cells listed) and
\* the call avoid_walk(steps) with steps = np.zeros((dim, size)), i = 1
generate_obstacles_points ==
    /\ pc = "generate_obstacles"
    /\ Len(obstacles) = n
    /\ obs_points' = IF n # 0 THEN obs_points \o ObsPoints(obstacles) ELSE obs_points
    /\ origin' = << >>
    /\ pc' = "avoid_walk"
    /\ stack' = << [steps |-> Zeros(dim, num_steps), i |-> 1,
                    phase |-> "call", poss_steps |-> {}] >>
    /\ UNCHANGED << dim, entry, num_steps, n, edges, max_distance, obstacles,
                    ret, walk >>

(* ------------------------------ the search ----------------------------- *)

\* options of RandomWalk.possible_steps
options == << <<0, 1>>, <<0, -1>>, <<1, 0>>, <<-1, 0>> >>

\* options of RandomWalk3D.possible_steps
options3D == << <<0, 0, 1>>, <<0, 0, -1>>, <<0, 1, 0>>, <<0, -1, 0>>,
               <<1, 0, 0>>, <<-1, 0, 0>> >>

\* possible_steps without the test `temp not in steps`
possible_steps_revisit(steps, i, edge, obs) ==
    LET edge_points == Range(Transpose(edge))
        occupied == Range(obs)
        legal(j) ==
            LET temp == AddPoint(steps[i + 1], j)
            IN  /\ temp \notin edge_points
                /\ temp \notin occupied
        possible_choices == SelectSeq(options, legal)
    IN  [q \in DOMAIN possible_choices |->
            AddPoint(steps[i + 1], possible_choices[q])]

\* possible_steps without the test `temp not in edge`
possible_steps_no_edge(steps, i, edge, obs) ==
    LET taken == Range(steps)
        occupied == Range(obs)
        legal(j) ==
            LET temp == AddPoint(steps[i + 1], j)
            IN  /\ temp \notin taken
                /\ temp \notin occupied
        possible_choices == SelectSeq(options, legal)
    IN  [q \in DOMAIN possible_choices |->
            AddPoint(steps[i + 1], possible_choices[q])]

\* RandomWalk.possible_steps before the shuffle: the list possible_choices.
\* steps is the buffer (all its slots), i the Python index of the current
\* slot, edge the border [xs, ys], obs the occupied cells.
possible_steps(steps, i, edge, obs) ==
    LET taken == Range(steps)
        edge_points == Range(Transpose(edge))
        occupied == Range(obs)
        legal(j) ==
            LET temp == AddPoint(steps[i + 1], j)
            IN  /\ temp \notin taken
                /\ temp \notin edge_points
                /\ temp \notin occupied
        possible_choices == SelectSeq(options, legal)
    IN  [q \in DOMAIN possible_choices |->
            AddPoint(steps[i + 1], possible_choices[q])]

\* possible_steps of 3d.py without the test `temp not in obs`
possible_steps3D_no_obs(steps, i, max, obs) ==
    LET taken == Range(steps)
        legal(j) ==
            LET temp == AddPoint(steps[i + 1], j)
            IN  /\ temp \notin taken
                /\ Abs(temp[1]) < max /\ Abs(temp[2]) < max /\ Abs(temp[3]) < max
        possible_choices == SelectSeq(options3D, legal)
    IN  [q \in DOMAIN possible_choices |->
            AddPoint(steps[i + 1], possible_choices[q])]

\* RandomWalk3D.possible_steps before the shuffle
possible_steps3D(steps, i, max, obs) ==
    LET taken == Range(steps)
        occupied == Range(obs)
        legal(j) ==
            LET temp == AddPoint(steps[i + 1], j)
            IN  /\ temp \notin taken
                /\ Abs(temp[1]) < max /\ Abs(temp[2]) < max /\ Abs(temp[3]) < max
                /\ temp \notin occupied
        possible_choices == SelectSeq(options3D, legal)
    IN  [q \in DOMAIN possible_choices |->
            AddPoint(steps[i + 1], possible_choices[q])]

\* self.possible_steps(steps, i) of the class the run belongs to
poss_steps_of(steps, i) ==
    IF dim = 2 THEN possible_steps(steps, i, edges, obs_points)
    ELSE possible_steps3D(steps, i, max_distance, obs_points)

\* temp_steps without the assignment to slot i + 1
temp_steps_no_next(steps, i, j) ==
    [p \in DOMAIN steps |-> IF p = i + 1 THEN j ELSE steps[p]]

\* temp_steps that sets every slot from i on to j
temp_steps_fill(steps, i, j) ==
    [p \in DOMAIN steps |-> IF p >= i + 1 THEN j ELSE steps[p]]

\* temp_steps of avoid_walk: a copy of steps with slot i set to j and, when
\* i is not the last slot, slot i + 1 set to the same point
temp_steps(steps, i, j) ==
    [p \in DOMAIN steps |->
        IF p = i + 1 THEN j
        ELSE IF p = i + 2 /\ i < Len(steps) - 1 THEN j
        ELSE steps[p]]

top == stack[Len(stack)]

Pop(st) == SubSeq(st, 1, Len(st) - 1)

ReplaceTop(st, f) == [st EXCEPT ![Len(st)] = f]

\* avoid_walk, lines 47-48: i == len(steps[0]), the buffer is returned
avoid_walk_base ==
    /\ pc = "avoid_walk"
    /\ Len(stack) > 0
    /\ top.phase = "call"
    /\ top.i = Len(top.steps)
    /\ ret' = StepsValue(top.steps)
    /\ stack' = Pop(stack)
    /\ UNCHANGED << dim, entry, num_steps, n, edges, max_distance, obstacles,
                    obs_points, origin, pc, walk >>

\* avoid_walk, lines 51-54: possible_steps is empty, False is returned
avoid_walk_dead_end ==
    /\ pc = "avoid_walk"
    /\ Len(stack) > 0
    /\ top.phase = "call"
    /\ top.i # Len(top.steps)
    /\ Len(poss_steps_of(top.steps, top.i)) = 0
    /\ ret' = FalseValue
    /\ stack' = Pop(stack)
    /\ UNCHANGED << dim, entry, num_steps, n, edges, max_distance, obstacles,
                    obs_points, origin, pc, walk >>

\* avoid_walk, lines 51-56: possible_steps is not empty and the loop starts.
\* np.random.shuffle leaves the candidates in an arbitrary order; the loop
\* takes them in that order, so each pass draws any candidate not yet taken
\* and poss_steps holds the candidates the loop has not reached.
avoid_walk_loop ==
    /\ pc = "avoid_walk"
    /\ Len(stack) > 0
    /\ top.phase = "call"
    /\ top.i # Len(top.steps)
    /\ Len(poss_steps_of(top.steps, top.i)) # 0
    /\ stack' = ReplaceTop(stack, [top EXCEPT
                    !.phase = "loop",
                    !.poss_steps = Range(poss_steps_of(top.steps, top.i))])
    /\ UNCHANGED << dim, entry, num_steps, n, edges, max_distance, obstacles,
                    obs_points, origin, pc, ret, walk >>

\* avoid_walk whose loop does not advance past the candidate it tried
avoid_walk_try_same ==
    /\ pc = "avoid_walk"
    /\ Len(stack) > 0
    /\ top.phase = "loop"
    /\ ret.kind # "steps"
    /\ \E j \in top.poss_steps :
          stack' = Append(
              stack,
              [steps |-> temp_steps(top.steps, top.i, j), i |-> top.i + 1,
               phase |-> "call", poss_steps |-> {}])
    /\ ret' = NoValue
    /\ UNCHANGED << dim, entry, num_steps, n, edges, max_distance, obstacles,
                    obs_points, origin, pc, walk >>

\* avoid_walk whose loop goes on to the next candidate whatever w is
avoid_walk_try_after_success ==
    /\ pc = "avoid_walk"
    /\ Len(stack) > 0
    /\ top.phase = "loop"
    /\ \E j \in top.poss_steps :
          stack' = Append(
              ReplaceTop(stack, [top EXCEPT !.poss_steps = @ \ {j}]),
              [steps |-> temp_steps(top.steps, top.i, j), i |-> top.i + 1,
               phase |-> "call", poss_steps |-> {}])
    /\ ret' = NoValue
    /\ UNCHANGED << dim, entry, num_steps, n, edges, max_distance, obstacles,
                    obs_points, origin, pc, walk >>

\* avoid_walk that commits the candidate to steps itself, not to a copy
avoid_walk_try_in_place ==
    /\ pc = "avoid_walk"
    /\ Len(stack) > 0
    /\ top.phase = "loop"
    /\ ret.kind # "steps"
    /\ \E j \in top.poss_steps :
          stack' = Append(
              ReplaceTop(stack, [top EXCEPT
                  !.poss_steps = @ \ {j},
                  !.steps = temp_steps(top.steps, top.i, j)]),
              [steps |-> temp_steps(top.steps, top.i, j), i |-> top.i + 1,
               phase |-> "call", poss_steps |-> {}])
    /\ ret' = NoValue
    /\ UNCHANGED << dim, entry, num_steps, n, edges, max_distance, obstacles,
                    obs_points, origin, pc, walk >>

\* avoid_walk, lines 56-64: the next candidate j is committed to a copy of
\* the buffer and avoid_walk(temp_steps, i + 1) is called
avoid_walk_try ==
    /\ pc = "avoid_walk"
    /\ Len(stack) > 0
    /\ top.phase = "loop"
    /\ ret.kind # "steps"
    /\ \E j \in top.poss_steps :
          stack' = Append(
              ReplaceTop(stack, [top EXCEPT !.poss_steps = @ \ {j}]),
              [steps |-> temp_steps(top.steps, top.i, j), i |-> top.i + 1,
               phase |-> "call", poss_steps |-> {}])
    /\ ret' = NoValue
    /\ UNCHANGED << dim, entry, num_steps, n, edges, max_distance, obstacles,
                    obs_points, origin, pc, walk >>

\* avoid_walk, lines 67-68: w is not a bool and is returned
avoid_walk_return_w ==
    /\ pc = "avoid_walk"
    /\ Len(stack) > 0
    /\ top.phase = "loop"
    /\ ret.kind = "steps"
    /\ stack' = Pop(stack)
    /\ UNCHANGED << dim, entry, num_steps, n, edges, max_distance, obstacles,
                    obs_points, origin, pc, ret, walk >>

\* avoid_walk returning False after the first dead end
avoid_walk_exhausted_early ==
    /\ pc = "avoid_walk"
    /\ Len(stack) > 0
    /\ top.phase = "loop"
    /\ ret.kind = "False"
    /\ stack' = Pop(stack)
    /\ UNCHANGED << dim, entry, num_steps, n, edges, max_distance, obstacles,
                    obs_points, origin, pc, ret, walk >>

\* avoid_walk, line 70: every candidate was a dead end, False is returned
avoid_walk_exhausted ==
    /\ pc = "avoid_walk"
    /\ Len(stack) > 0
    /\ top.phase = "loop"
    /\ ret.kind = "False"
    /\ top.poss_steps = {}
    /\ stack' = Pop(stack)
    /\ UNCHANGED << dim, entry, num_steps, n, edges, max_distance, obstacles,
                    obs_points, origin, pc, ret, walk >>

\* rand_avoid, lines 31-32, and __init__, line 13: self.walk is what the
\* outermost avoid_walk returned
rand_avoid_return ==
    /\ pc = "avoid_walk"
    /\ Len(stack) = 0
    /\ ret.kind # "none"
    /\ walk' = ret
    /\ ret' = NoValue
    /\ pc' = "done"
    /\ UNCHANGED << dim, entry, num_steps, n, edges, max_distance, obstacles,
                    obs_points, origin, stack >>

Next ==
    \/ rand_avoid
    \/ rand_avoid3D
    \/ random_obstacle_placement_raise
    \/ random_obstacle_placement_retry
    \/ generate_obstacles_place
    \/ generate_obstacles_points
    \/ avoid_walk_base
    \/ avoid_walk_dead_end
    \/ avoid_walk_loop
    \/ avoid_walk_try
    \/ avoid_walk_return_w
    \/ avoid_walk_exhausted
    \/ rand_avoid_return

Spec == Init /\ [][Next]_vars

\* the steps of the search: avoid_walk and the return to rand_avoid
SearchNext ==
    \/ avoid_walk_base
    \/ avoid_walk_dead_end
    \/ avoid_walk_loop
    \/ avoid_walk_try
    \/ avoid_walk_return_w
    \/ avoid_walk_exhausted
    \/ rand_avoid_return

\* The search is sequential code without any wait: whenever it has a next
\* step, it takes it.
FairSpec == Spec /\ WF_vars(SearchNext)

\* Sampling is fair: random.randint draws uniformly, so a point that
\* random_obstacle_placement accepts is drawn eventually when one exists.
PlacementFairSpec == Spec /\ WF_vars(generate_obstacles_place)

(* ----------------------- the bound computation ------------------------- *)

\* RandomWalk(size) / RandomWalk3D(size) for every step count up to
\* MaxCount, followed up to the point where the bound is installed
BoundInit ==
    /\ dim \in {2, 3}
    /\ num_steps \in 1..MaxCount
    /\ entry = "rand_avoid"
    /\ pc = "rand_avoid"
    /\ n = 0
    /\ edges = << << >> >>
    /\ max_distance = 0
    /\ obstacles = << >>
    /\ obs_points = << >>
    /\ origin = << >>
    /\ stack = << >>
    /\ ret = NoValue
    /\ walk = NoValue

BoundNext ==
    \/ rand_avoid
    \/ rand_avoid3D

BoundSpec == BoundInit /\ [][BoundNext]_vars

(* ------------------------- properties of walks ------------------------- *)

\* the buffers returned so far: by the innermost finished call of avoid_walk
\* and by rand_avoid
Returned == {w \in {ret, walk} : w.kind = "steps"}

\* the points one lattice step away from p
Neighbours(p) ==
    {[p EXCEPT ![k] = @ + s] : k \in DOMAIN p, s \in {-1, 1}}

Inside(p, h) == \A k \in DOMAIN p : Abs(p[k]) < h

\* C1: self-avoidance: the points of every walk returned by avoid_walk are
\* pairwise distinct.
C1_SelfAvoiding ==
    \A w \in Returned :
        \A p, q \in DOMAIN w.steps : p # q => w.steps[p] # w.steps[q]

\* a walk with a turn in it was returned after the search had to avoid its
\* own path
C1_Witness ==
    /\ walk.kind = "steps"
    /\ Len(walk.steps) >= 5
    /\ \E p \in DOMAIN walk.steps :
          Cardinality(Neighbours(walk.steps[p]) \cap Range(walk.steps)) >= 3

\* C2: walk shape: a returned walk has exactly num_steps points, starts at
\* the origin, and consecutive points differ by one unit on exactly one axis.
C2_WalkShape ==
    \A w \in Returned :
        /\ Len(w.steps) = num_steps
        /\ w.steps[1] = Zero(dim)
        /\ \A p \in 1..(Len(w.steps) - 1) :
              \E k \in 1..dim :
                  /\ Abs(w.steps[p + 1][k] - w.steps[p][k]) = 1
                  /\ \A m \in 1..dim : m # k => w.steps[p + 1][m] = w.steps[p][m]

\* a walk of at least four points whose moves use more than one axis
C2_Witness ==
    /\ walk.kind = "steps"
    /\ Len(walk.steps) >= 4
    /\ \E k, m \in 1..dim :
          /\ k # m
          /\ walk.steps[Len(walk.steps)][k] # 0
          /\ walk.steps[Len(walk.steps)][m] # 0

\* C3: region containment: every point of a returned walk has
\* |coordinate| < H on every axis, H the half-width of the run.
C3_InsideRegion ==
    \A w \in Returned : \A p \in DOMAIN w.steps : Inside(w.steps[p], limit)

\* a returned two-dimensional walk that runs along the border, one cell
\* inside it
C3_Witness ==
    /\ walk.kind = "steps"
    /\ dim = 2
    /\ \E p \in DOMAIN walk.steps, k \in 1..dim :
          Abs(walk.steps[p][k]) = limit - 1 /\ limit >= 3

\* C4: obstacle avoidance: no point of a returned walk, the origin at index
\* 0 included, is an occupied cell of an obstacle.
C4_OffObstacles ==
    \A w \in Returned : \A p \in DOMAIN w.steps : w.steps[p] \notin Range(obs_points)

\* a walk of at least three points was returned although an obstacle
\* occupies a cell next to the origin
C4_Witness ==
    /\ walk.kind = "steps"
    /\ Len(walk.steps) >= 3
    /\ Neighbours(Zero(dim)) \cap Range(obs_points) # {}

\* whether a self-avoiding walk of m more moves continues from `last`, with
\* `visited` already on the walk, strictly inside the region of half-width h
\* and off the cells obs
RECURSIVE CanExtend(_, _, _, _, _)
CanExtend(visited, last, m, h, obs) ==
    \/ m = 0
    \/ \E q \in Neighbours(last) :
          /\ Inside(q, h)
          /\ q \notin obs
          /\ q \notin visited
          /\ CanExtend(visited \cup {q}, q, m - 1, h, obs)

\* whether any self-avoiding walk of size points from the origin exists
WalkExists(d, size, h, obs) ==
    /\ Inside(Zero(d), h)
    /\ Zero(d) \notin obs
    /\ CanExtend({Zero(d)}, Zero(d), size - 1, h, obs)

\* C5: exhaustiveness: the search returns False exactly when no
\* self-avoiding walk of num_steps points from the origin exists strictly
\* inside the region and off the obstacle cells; otherwise it returns a
\* buffer of num_steps points.
C5_Exhaustive ==
    pc = "done" =>
        /\ walk.kind \in {"False", "steps"}
        /\ walk.kind = "False"
              <=> ~WalkExists(dim, num_steps, limit, Range(obs_points))
        /\ walk.kind = "steps" => Len(walk.steps) = num_steps

\* the search failed for a region that has room for the first moves: it
\* backtracked out of every walk before giving up
C5_Witness ==
    /\ pc = "done"
    /\ walk.kind = "False"
    /\ limit >= 2

\* C6: search termination: once avoid_walk is called the search eventually
\* returns, a buffer or False; with bound 1 and two or more steps (step
\* count 50 among them) it returns False, the first level having no legal
\* candidate.
C6_SearchTerminates ==
    (pc = "avoid_walk") ~>
        (/\ pc = "done"
         /\ walk.kind \in {"False", "steps"}
         /\ (limit = 1 /\ num_steps >= 2) => walk = FalseValue)

\* the run with step count 50 and bound 1 has ended with False
C6_Witness ==
    /\ pc = "done"
    /\ num_steps = DegenerateSteps
    /\ limit = 1
    /\ walk = FalseValue

(* ------------------------ properties of obstacles ---------------------- *)

\* the cells of the obstacles placed so far
PlacedCells == UNION {Range(Transpose(obstacles[q])) : q \in DOMAIN obstacles}

\* whether every coordinate of p lies in lo..hi
InBlock(p, lo, hi) == \A k \in DOMAIN p : lo <= p[k] /\ p[k] <= hi

\* C7: no obstacle covers the origin: the all-zero point is not an occupied
\* cell of any obstacle generate_obstacles placed, nor of the cell list.
C7_OriginFree ==
    /\ Zero(dim) \notin PlacedCells
    /\ Zero(dim) \notin Range(obs_points)

\* a three-dimensional obstacle was placed right next to the origin
C7_Witness ==
    /\ dim = 3
    /\ Len(obstacles) >= 1
    /\ Neighbours(Zero(dim)) \cap PlacedCells # {}

\* C8, as claimed: no occupied cell of a placed obstacle lies in the block
\* whose coordinates span -4..0 on every axis.
C8_Original == \A c \in PlacedCells : ~InBlock(c, -4, 0)

\* C8, amended: no occupied cell of a placed obstacle lies in the block
\* whose coordinates span -1..0 on every axis (the placement test looks at
\* the placement origin only, so cells of an accepted obstacle do lie in the
\* block spanning -4..0).
C8_NoCellInCorner == \A c \in PlacedCells : ~InBlock(c, -1, 0)

\* an obstacle was accepted that has a cell in the block spanning -4..0
C8_Witness ==
    \E q \in DOMAIN obstacles :
        \E c \in Range(Transpose(obstacles[q])) : InBlock(c, -4, 0)

\* C9, as claimed: a run with step count 1 through rand_avoid ends with a
\* walk of exactly one point, the origin.
C9_StepCountOne ==
    (/\ entry = "rand_avoid"
     /\ num_steps = 1
     /\ pc \notin {"rand_avoid", "generate_obstacles", "avoid_walk"})
        => (pc = "done" /\ walk = StepsValue(<< Zero(dim) >>))

\* C10: accepted placement origins: the origin random_obstacle_placement
\* returned has every coordinate in [-H, H-4] and at least one coordinate
\* below -4 or above 0; it anchors the obstacle appended last.
C10_AcceptedOrigin ==
    origin # << >> =>
        /\ \A k \in 1..dim : -limit <= origin[k] /\ origin[k] <= limit - 4
        /\ \E k \in 1..dim : origin[k] < -4 \/ origin[k] > 0
        /\ Len(obstacles) >= 1
        /\ Transpose(obstacles[Len(obstacles)])[1] = origin

\* an origin was returned that has a coordinate at an end of the sampled
\* range and a coordinate inside [-4, 0]
C10_Witness ==
    /\ origin # << >>
    /\ \E k, m \in 1..dim :
          /\ origin[k] \in {-limit, limit - 4}
          /\ origin[m] >= -4 /\ origin[m] <= 0

\* some point of [-H, H-4]^D does not have every coordinate in [-4, 0]: the
\* range is not empty and one of its values lies below -4 or above 0
ValidOriginExists ==
    \E v \in (-limit)..(limit - 4) : v < -4 \/ v > 0

\* generate_obstacles is in its first loop: it has called
\* random_obstacle_placement and the call has not returned
PlacementPending == pc = "generate_obstacles" /\ Len(obstacles) < n

BlockAt(o) == {AddPoint(o, d) : d \in [DOMAIN o -> 0..3]}

\* C16: obstacle footprint: generate_obstacles never records more than the
\* K obstacles asked for and has recorded exactly K when it returns; each
\* obstacle lists exactly the 4^D cells origin + {0,1,2,3}^D (16 in 2D, 64
\* in 3D), each once; every coordinate of every occupied cell lies in
\* [-H, H-1]; and the occupied-cell list built on return holds exactly the
\* cells of the K obstacles, K * 4^D entries.
C16_Footprint ==
    /\ Len(obstacles) <= n
    /\ \A q \in DOMAIN obstacles :
          LET points == Transpose(obstacles[q])
              cells == Range(points)
          IN  /\ cells = BlockAt(points[1])
              /\ Cardinality(cells) = (IF dim = 2 THEN 16 ELSE 64)
              /\ Len(points) = Cardinality(cells)
              /\ \A c \in cells : \A k \in 1..dim :
                    -limit <= c[k] /\ c[k] <= limit - 1
    /\ pc = "generate_obstacles" => obs_points = << >>
    /\ pc \in {"avoid_walk", "done"} =>
          /\ Len(obstacles) = n
          /\ Range(obs_points) = PlacedCells
          /\ Len(obs_points) = n * (IF dim = 2 THEN 16 ELSE 64)

\* generate_obstacles has returned with two obstacles whose cells reach
\* both ends -H and H-1 of the range
C16_Witness ==
    /\ pc = "avoid_walk"
    /\ Len(obstacles) = 2
    /\ \E c \in Range(obs_points), k \in 1..dim : c[k] = -limit
    /\ \E c \in Range(obs_points), k \in 1..dim : c[k] = limit - 1

\* the cell one unit in the negative direction of axis k from the origin
NegativeNeighbour(k) == [Zero(dim) EXCEPT ![k] = -1]

\* the root call avoid_walk(steps, 1) is about to take the first step
FirstStep ==
    /\ pc = "avoid_walk"
    /\ Len(stack) = 1
    /\ top.phase = "call"
    /\ top.i = 1
    /\ top.i < Len(top.steps)

\* C19: free corner around the origin: no occupied cell has all its
\* coordinates in {-1, 0}; so the cells one unit in the negative direction
\* of each axis from the origin are never occupied, and for H >= 2 they are
\* legal candidates of the first step of the search, which has at least D
\* candidates.
C19_FreeCorner ==
    LET occupied == PlacedCells \cup Range(obs_points)
    IN  /\ \A c \in occupied : \E k \in 1..dim : c[k] \notin {-1, 0}
        /\ \A k \in 1..dim : NegativeNeighbour(k) \notin occupied
        /\ (FirstStep /\ limit >= 2) =>
              LET poss_steps == poss_steps_of(top.steps, top.i)
              IN  /\ Len(poss_steps) >= dim
                  /\ \A k \in 1..dim : NegativeNeighbour(k) \in Range(poss_steps)

\* the first step of a search has exactly D legal candidates: obstacles
\* occupy every cell one unit in a positive direction from the origin
C19_Witness ==
    /\ FirstStep
    /\ limit >= 2
    /\ Len(poss_steps_of(top.steps, top.i)) = dim

(* ------------------- properties of the legality test ------------------ *)

\* the calls of avoid_walk that generate candidates: those whose index is
\* not past the last slot
Generating == {q \in DOMAIN stack : stack[q].i < Len(stack[q].steps)}

\* the points temp = steps[i] + j that possible_steps tests in frame f
Candidates(f) ==
    {AddPoint(f.steps[f.i + 1], options[q]) : q \in DOMAIN options}

\* C13, as claimed: the 2D variant admits points with |coordinate| = H: a
\* candidate of a 2D search state that lies on the border (largest
\* |coordinate| equal to H), is not on the walk and is not an occupied cell
\* passes the 2D legality test, where the strict test of the 3D variant
\* rejects it.
C13_Original ==
    (pc = "avoid_walk" /\ dim = 2) =>
        \A q \in Generating :
            LET f == stack[q]
                admitted == Range(possible_steps(f.steps, f.i, edges, obs_points))
            IN  \A c \in Candidates(f) :
                    (/\ Max(Abs(c[1]), Abs(c[2])) = limit
                     /\ c \notin Range(f.steps)
                     /\ c \notin Range(obs_points)) => c \in admitted

\* C13, amended: in every 2D search state the test `candidate not in the
\* border point list` and the strict test |x| < H and |y| < H agree on
\* every candidate: the 2D variant never admits a point with
\* |coordinate| = H.
C13_SameConvention ==
    (pc = "avoid_walk" /\ dim = 2) =>
        LET edge_points == Range(Transpose(edges))
        IN  \A q \in Generating :
                \A c \in Candidates(stack[q]) :
                    (c \notin edge_points) <=> Inside(c, limit)

\* a 2D call of avoid_walk one cell inside the border of a region of
\* half-width 2 or more tests a candidate on the border
C13_Witness ==
    /\ pc = "avoid_walk"
    /\ dim = 2
    /\ limit >= 2
    /\ \E q \in Generating :
          /\ stack[q].i >= 2
          /\ \E c \in Candidates(stack[q]) :
                Max(Abs(c[1]), Abs(c[2])) = limit /\ c \notin Range(obs_points)

(* ---------------------- properties of the buffer ---------------------- *)

\* the points temp = steps[i] + j that possible_steps of either class tests
\* in frame f
CandidatesOf(f) ==
    IF dim = 2 THEN Candidates(f)
    ELSE {AddPoint(f.steps[f.i + 1], options3D[q]) : q \in DOMAIN options3D}

\* the committed points of frame f: Python slots 0..i-1
Committed(f) == {f.steps[p] : p \in 1..f.i}

\* C14: placeholder invariant: in every call avoid_walk(steps, i) with
\* 1 <= i < N slot i holds the point of slot i-1 and every later slot holds
\* the origin; so the candidates are exactly the unit steps from the point
\* of slot i-1, and the points `temp not in steps` rejects are exactly the
\* committed points of slots 0..i-1.
C14_Placeholder ==
    pc = "avoid_walk" =>
        \A q \in Generating :
            LET f == stack[q]
            IN  /\ f.i >= 1
                /\ f.steps[f.i + 1] = f.steps[f.i]
                /\ \A p \in (f.i + 2)..Len(f.steps) : f.steps[p] = Zero(dim)
                /\ CandidatesOf(f) = Neighbours(f.steps[f.i])
                /\ Range(f.steps) = Committed(f)

\* a call at index 3 or more, away from the origin, with slots left after
\* the placeholder
C14_Witness ==
    /\ pc = "avoid_walk"
    /\ Len(stack) > 0
    /\ top.phase = "call"
    /\ top.i >= 3
    /\ top.i + 2 <= Len(top.steps)
    /\ top.steps[top.i] # Zero(dim)

\* C15: backtracking leaves committed state untouched: no step of
\* avoid_walk or possible_steps changes the buffer or the index of a call
\* that stays active, so a caller whose recursive call returned failure has
\* the buffer it had before the candidate was tried; and no such step
\* changes the obstacle list, the occupied cells or the bound.
C15_FrameEffect ==
    [][pc = "avoid_walk" =>
          /\ UNCHANGED << obstacles, obs_points, edges, max_distance >>
          /\ \A q \in DOMAIN stack \cap DOMAIN stack' :
                /\ stack'[q].steps = stack[q].steps
                /\ stack'[q].i = stack[q].i]_vars

\* a recursive call has returned failure to a caller two or more levels
\* deep that has further candidates to try
C15_Witness ==
    /\ pc = "avoid_walk"
    /\ ret = FalseValue
    /\ Len(stack) >= 3
    /\ top.phase = "loop"
    /\ top.poss_steps # {}

\* C18: first success wins: a buffer is returned first by a call that is
\* at the base case i = N, and it is that call's buffer; from then on no
\* candidate is committed at any level (no call of avoid_walk is made, the
\* active calls only return), the returned buffer is passed up unchanged,
\* and the root call's value, stored in self.walk, is that buffer.
C18_FirstSuccessWins ==
    [][/\ (ret.kind # "steps" /\ ret'.kind = "steps") =>
              /\ Len(stack) > 0
              /\ top.phase = "call"
              /\ top.i = Len(top.steps)
              /\ ret'.steps = top.steps
       /\ ret.kind = "steps" =>
              /\ Len(stack') <= Len(stack)
              /\ stack' = SubSeq(stack, 1, Len(stack'))
              /\ \/ ret' = ret /\ walk' = walk /\ stack # << >>
                 \/ stack = << >> /\ walk' = ret /\ pc' = "done"]_vars

\* the buffer of a base case is being passed up through a call, two or more
\* levels deep, that has candidates it did not try
C18_Witness ==
    /\ pc = "avoid_walk"
    /\ ret.kind = "steps"
    /\ Len(stack) >= 2
    /\ top.phase = "loop"
    /\ top.poss_steps # {}

(* ------------------------ properties of the bound ---------------------- *)

\* whether r is the integer nearest to the d-th root of size:
\* (r - 1/2)^d < size < (r + 1/2)^d
IsRoundedRoot(r, size, d) ==
    /\ r >= 0
    /\ Pow(2 * r - 1, d) < Pow(2, d) * size
    /\ Pow(2, d) * size < Pow(2 * r + 1, d)

\* whether h is the integer nearest to num / den, the even one at a tie
IsRounded(h, num, den) ==
    \/ 2 * Abs(den * h - num) < den
    \/ 2 * Abs(den * h - num) = den /\ h % 2 = 0

\* the bound has been computed and installed
BoundSet == pc = "generate_obstacles" /\ entry = "rand_avoid"

\* C11: region bound: for every step count N >= 1 the half-width computed
\* by border (2D) and set_max (3D) is an integer H >= 1, the rounding of
\* R * 1.75 / 2 = 7R/8 with R the rounded D-th root of N; for N = 225 it is
\* 13 in 2D and 5 in 3D.
C11_RegionBound ==
    BoundSet =>
        /\ limit \in Nat
        /\ limit >= 1
        /\ \E r \in 0..num_steps :
              IsRoundedRoot(r, num_steps, dim) /\ IsRounded(limit, 7 * r, 8)
        /\ num_steps = 225 => limit = (IF dim = 2 THEN 13 ELSE 5)

\* the bound of the step count 225 has been computed in two dimensions
C11_Witness == BoundSet /\ num_steps = 225 /\ dim = 2 /\ limit = 13

\* the half-width in the order claimed: L = round(1.75 * root), H = round(L / 2)
ProductFirst == PyRound(SideLength(num_steps, dim), 2)

\* C17, as claimed: the half-width computed by border and set_max is
\* H = round(L / 2) with L = round(1.75 * root_D(N)): the root is multiplied
\* by 1.75 and the product rounded to the side length L before the halving.
C17_Original == BoundSet => limit = ProductFirst

\* C17, amended: the half-width is H = round(L / 2) with
\* L = 1.75 * round(root_D(N)): the root is rounded to an integer R before
\* it is multiplied by 1.75, and the product L = 7R/4 is halved without
\* being rounded; H is within 1 of the value of the claimed order.
C17_RootRoundedFirst ==
    BoundSet =>
        \E r \in 0..num_steps :
            /\ IsRoundedRoot(r, num_steps, dim)
            /\ IsRounded(limit, 7 * r, 8)
            /\ Abs(limit - ProductFirst) <= 1

\* a bound has been computed that the claimed order would not give
C17_Witness == BoundSet /\ limit # ProductFirst

====
